---- MODULE Spec2Model ----
(***************************************************************************)
(* Yield statistics of the pool snapshot tables: the snapshot selection    *)
(* (getPoolsEntries), the ratio calculator (calculateRatio), the metric    *)
(* derivation (getPoolsStats), the per-table loop (getStats) and the       *)
(* request handler.                                                        *)
(*                                                                         *)
(* Time is counted in hours since 2023-01-01T00:00Z (one hour stands for   *)
(* the code's 1000 * 3600 milliseconds).  A string of digits is the        *)
(* sequence of its digits.  A Decimal is an exact rational, one of the     *)
(* three non-finite values, or the unevaluated power of a rational.        *)
(***************************************************************************)
EXTENDS Integers, Sequences, FiniteSets

VARIABLES
    now,        \* the clock reading (hours) of the invocation
    tz,         \* offset of the server's local time from UTC (hours)
    store,      \* table name -> set of snapshot rows
    endpoint,   \* the handler deployed: "multi", "single" or "stats"
    networks,   \* the tables the handler walks, in order
    pc,         \* position of the handler (or of the getPoolsStats call)
    net,        \* index into networks of the table being processed
    addresses,  \* result of the distinct-address listing of that table
    idx,        \* index into addresses of the address being processed
    entries,    \* PoolsEntries of the address being processed
    stats,      \* rows pushed so far for the current table
    done,       \* finished tables: [table, addresses, rows] each
    responses,  \* responses sent by the current invocation
    err,        \* the error caught by the handler ("" when none)
    prev,       \* responses of the previous invocation
    days,       \* daysElapsedSinceIndexed of the last getPoolsStats call
    row         \* result of the last getPoolsStats call

vars == <<now, tz, store, endpoint, networks, pc, net, addresses, idx, entries, stats,
          done, responses, err, prev, days, row>>

-----------------------------------------------------------------------------
(* Program constants *)

AVG_DAYS == 7
DAYS_IN_YEAR == 365
USD_SCALE == 1000000
SHARES_SCALE == 1000000
\* 1000 * 3600 * 24 milliseconds, in hours
DAY == 24
\* decimal.js: default number of significant digits of a Decimal
PRECISION == 20
\* the argument of every toFixed call
FIXED_DP == 6

Null == [null |-> TRUE]

-----------------------------------------------------------------------------
(* Bounds of the model *)

\* the most snapshots the tables hold together
MaxSnapshots == 2
\* the most entries a listing that repeats addresses holds beyond one each
MaxRepeats == 1

-----------------------------------------------------------------------------
(* Decimal arithmetic (decimal.js as the code uses it) *)

Abs(x) == IF x < 0 THEN -x ELSE x

RECURSIVE Gcd(_, _)
Gcd(a, b) == IF b = 0 THEN a ELSE Gcd(b, a % b)

NoSym == [base |-> <<0, 1>>, exp |-> <<0, 1>>, ops |-> <<>>]

\* the finite Decimal n/d (d # 0), in lowest terms with a positive denominator
Fin(n, d) ==
    LET s == IF d < 0 THEN -1 ELSE 1
        g == Gcd(Abs(n), Abs(d))
    IN  [k |-> "fin", n |-> (s * n) \div g, d |-> Abs(d) \div g, sym |-> NoSym]

NaN == [k |-> "nan", n |-> 0, d |-> 1, sym |-> NoSym]
PosInf == [k |-> "inf", n |-> 1, d |-> 1, sym |-> NoSym]
NegInf == [k |-> "inf", n |-> -1, d |-> 1, sym |-> NoSym]
Zero == Fin(0, 1)
One == Fin(1, 1)

\* sign of a Decimal that is not NaN and not symbolic
Sign(x) == IF x.n > 0 THEN 1 ELSE IF x.n < 0 THEN -1 ELSE 0
Inf(s) == IF s < 0 THEN NegInf ELSE PosInf

\* new Decimal(str) for a string of decimal digits
RECURSIVE ParseDigits(_, _)
ParseDigits(s, acc) ==
    IF s = <<>> THEN acc ELSE ParseDigits(Tail(s), acc * 10 + Head(s))

NewDecimal(s) == Fin(ParseDigits(s, 0), 1)

\* x.div(y)
Div(x, y) ==
    CASE x.k = "nan" \/ y.k = "nan" -> NaN
      [] x.k = "inf" /\ y.k = "inf" -> NaN
      [] x.k = "inf" /\ y.k = "fin" ->
            Inf(Sign(x) * (IF Sign(y) < 0 THEN -1 ELSE 1))
      [] x.k = "fin" /\ y.k = "inf" -> Zero
      [] x.k = "fin" /\ y.k = "fin" /\ y.n = 0 ->
            IF x.n = 0 THEN NaN ELSE Inf(Sign(x))
      [] x.k = "fin" /\ y.k = "fin" /\ y.n # 0 ->
            LET g1 == Gcd(Abs(x.n), Abs(y.n))
                g2 == Gcd(x.d, y.d)
                a == IF g1 = 0 THEN 0 ELSE x.n \div g1
                c == IF g1 = 0 THEN y.n ELSE y.n \div g1
            IN  Fin(a * (y.d \div g2), (x.d \div g2) * c)

\* x.sub(y)
Sub(x, y) ==
    CASE x.k = "nan" \/ y.k = "nan" -> NaN
      [] x.k = "fin" /\ y.k = "inf" -> Inf(-Sign(y))
      [] x.k = "inf" /\ y.k = "fin" -> x
      [] x.k = "inf" /\ y.k = "inf" -> IF Sign(x) # Sign(y) THEN x ELSE NaN
      [] x.k = "fin" /\ y.k = "fin" ->
            LET g == Gcd(x.d, y.d)
            IN  Fin(x.n * (y.d \div g) - y.n * (x.d \div g), (x.d \div g) * y.d)
      [] x.k = "sym" /\ y.k = "fin" ->
            [x EXCEPT !.sym.ops = Append(@, [op |-> "sub", n |-> y.n, d |-> y.d])]

\* x.mul(y)
Mul(x, y) ==
    CASE x.k = "nan" \/ y.k = "nan" -> NaN
      [] x.k = "inf" /\ y.k \in {"inf", "fin"} ->
            IF Sign(y) = 0 THEN NaN ELSE Inf(Sign(x) * Sign(y))
      [] x.k = "fin" /\ y.k = "inf" ->
            IF Sign(x) = 0 THEN NaN ELSE Inf(Sign(x) * Sign(y))
      [] x.k = "fin" /\ y.k = "fin" ->
            LET g1 == Gcd(Abs(x.n), y.d)
                g2 == Gcd(Abs(y.n), x.d)
            IN  Fin((x.n \div g1) * (y.n \div g2), (x.d \div g2) * (y.d \div g1))
      [] x.k = "sym" /\ y.k = "fin" /\ y.n # 0 ->
            [x EXCEPT !.sym.ops = Append(@, [op |-> "mul", n |-> y.n, d |-> y.d])]

\* the JavaScript number a / b for integers a > 0 and b >= 0
JsDiv(a, b) == IF b = 0 THEN PosInf ELSE Fin(a, b)

\* x.pow(y) for y > 0 or y = Infinity.  A non-finite or zero operand goes
\* through Math.pow; 1 to any finite power is 1, x to the power 1 is x, a
\* negative base with a fractional exponent is NaN; every other power is a
\* finite positive Decimal, kept unevaluated.
Pow(x, y) ==
    CASE y.k = "nan" -> NaN
      [] y.k # "nan" /\ x.k = "nan" -> NaN
      [] y.k = "inf" /\ x.k = "inf" -> PosInf
      [] y.k = "inf" /\ x.k = "fin" ->
            IF Abs(x.n) > x.d THEN PosInf
            ELSE IF Abs(x.n) = x.d THEN NaN ELSE Zero
      [] y.k = "fin" /\ y.n > 0 /\ x.k = "inf" ->
            IF Sign(x) > 0 \/ y.d # 1 \/ y.n % 2 = 0 THEN PosInf ELSE NegInf
      [] y.k = "fin" /\ y.n > 0 /\ x.k = "fin" /\ x.n = 0 -> Zero
      [] y.k = "fin" /\ y.n > 0 /\ x.k = "fin" /\ x.n # 0 ->
            IF x = One THEN x
            ELSE IF y = One THEN x
            ELSE IF x.n < 0 /\ y.d # 1 THEN NaN
            ELSE [k |-> "sym", n |-> 0, d |-> 1,
                  sym |-> [base |-> <<x.n, x.d>>, exp |-> <<y.n, y.d>>,
                           ops |-> <<>>]]

-----------------------------------------------------------------------------
(* Strings produced by the formatting calls *)

\* a string that is not a numeral
Lit(s) == [text |-> s, neg |-> FALSE, ip |-> 0, fp |-> <<>>, of |-> NoSym]

\* the numeral -?ip[.fp]: ip the integer part, fp the fraction digits
Numeral(neg, ip, fp) ==
    [text |-> "", neg |-> neg, ip |-> ip, fp |-> fp, of |-> NoSym]

\* k digits of the fraction r/d (0 <= r < d) and the remainder left
RECURSIVE FracDigits(_, _, _)
FracDigits(r, d, k) ==
    IF k = 0 THEN [ds |-> <<>>, rem |-> r]
    ELSE LET rest == FracDigits((r * 10) % d, d, k - 1)
         IN  [ds |-> <<(r * 10) \div d>> \o rest.ds, rem |-> rest.rem]

\* add one unit in the last place; carry is TRUE when every digit was 9
RECURSIVE Incr(_)
Incr(ds) ==
    IF ds = <<>> THEN [ds |-> <<>>, carry |-> TRUE]
    ELSE LET last == ds[Len(ds)]
             init == SubSeq(ds, 1, Len(ds) - 1)
         IN  IF last < 9 THEN [ds |-> Append(init, last + 1), carry |-> FALSE]
             ELSE LET up == Incr(init)
                  IN  [ds |-> Append(up.ds, 0), carry |-> up.carry]

\* x.toFixed(dp): dp fraction digits, rounded half away from zero; the sign
\* is that of the value before rounding, and zero carries none
toFixed(x, dp) ==
    CASE x.k = "nan" -> Lit("NaN")
      [] x.k = "inf" -> IF Sign(x) < 0 THEN Lit("-Infinity") ELSE Lit("Infinity")
      [] x.k = "sym" -> [Lit("toFixed") EXCEPT !.of = x.sym]
      [] x.k = "fin" ->
            LET a == Abs(x.n)
                f == FracDigits(a % x.d, x.d, dp)
                up == 2 * f.rem >= x.d
                r == IF up THEN Incr(f.ds) ELSE [ds |-> f.ds, carry |-> FALSE]
            IN  Numeral(x.n < 0, (a \div x.d) + (IF r.carry THEN 1 ELSE 0), r.ds)

\* the fraction digits of r/d when the expansion ends within k digits
RECURSIVE ExactDigits(_, _, _)
ExactDigits(r, d, k) ==
    CASE r = 0 -> <<>>
      [] r # 0 /\ k > 0 ->
            <<(r * 10) \div d>> \o ExactDigits((r * 10) % d, d, k - 1)

\* x.toString() of a value written without an exponent whose digits end
\* within the precision
toString(x) ==
    CASE x.k = "nan" -> Lit("NaN")
      [] x.k = "inf" -> IF Sign(x) < 0 THEN Lit("-Infinity") ELSE Lit("Infinity")
      [] x.k = "fin" ->
            LET a == Abs(x.n)
            IN  Numeral(x.n < 0, a \div x.d, ExactDigits(a % x.d, x.d, PRECISION))

CALCULATING == Lit("calculating..")
STR_ZERO == Numeral(FALSE, 0, <<>>)

-----------------------------------------------------------------------------
(* calculateRatio and getPoolsStats *)

\* variant: a missing entry is read as a snapshot of "0" and "0"
calculateRatioOfMissingAsZero(poolEntry) ==
    LET usd == IF poolEntry = Null THEN <<0>> ELSE poolEntry.currentUsdBalance
        shares == IF poolEntry = Null THEN <<0>> ELSE poolEntry.totalShares
    IN  Div(Div(NewDecimal(usd), Fin(USD_SCALE, 1)),
            Div(NewDecimal(shares), Fin(SHARES_SCALE, 1)))

calculateRatio(poolEntry) ==
    IF poolEntry = Null THEN Null
    ELSE LET currentUsdBalance ==
                 Div(NewDecimal(poolEntry.currentUsdBalance), Fin(USD_SCALE, 1))
             totalShares ==
                 Div(NewDecimal(poolEntry.totalShares), Fin(SHARES_SCALE, 1))
         IN  Div(currentUsdBalance, totalShares)

\* Math.ceil(a / b) for b > 0
Ceil(a, b) == -((-a) \div b)

\* variant: the day count rounded down instead of up
daysElapsedRoundedDown(poolsEntries) ==
    IF poolsEntries.firstEntry # Null /\ poolsEntries.lastEntry # Null
    THEN (poolsEntries.lastEntry.blockTime - poolsEntries.firstEntry.blockTime)
             \div DAY
    ELSE 0

daysElapsedSinceIndexed(poolsEntries) ==
    IF poolsEntries.firstEntry # Null /\ poolsEntries.lastEntry # Null
    THEN LET firstBlockTime == poolsEntries.firstEntry.blockTime
             lastBlockTime == poolsEntries.lastEntry.blockTime
             daysDelta == lastBlockTime - firstBlockTime
         IN  Ceil(daysDelta, DAY)
    ELSE 0

getPoolsStats(address, poolsEntries) ==
    LET lastRatio == calculateRatio(poolsEntries.lastEntry)
        weeklyRatio == calculateRatio(poolsEntries.weeklyEntry)
        yesterdayRatio == calculateRatio(poolsEntries.yesterdayEntry)
        elapsed == daysElapsedSinceIndexed(poolsEntries)
        hundred == Fin(100, 1)
        baseApy ==
            IF lastRatio # Null
            THEN toFixed(Mul(Sub(Pow(lastRatio, JsDiv(DAYS_IN_YEAR, elapsed)), One),
                             hundred), FIXED_DP)
            ELSE CALCULATING
        avgApy ==
            IF weeklyRatio # Null /\ lastRatio # Null
            THEN toFixed(Mul(Sub(Pow(Div(lastRatio, weeklyRatio),
                                     JsDiv(DAYS_IN_YEAR, AVG_DAYS)), One),
                             hundred), FIXED_DP)
            ELSE CALCULATING
        dailyApr ==
            IF lastRatio # Null /\ yesterdayRatio # Null
            THEN toFixed(Mul(Mul(Sub(Div(lastRatio, yesterdayRatio), One),
                                 Fin(365, 1)), hundred), FIXED_DP)
            ELSE CALCULATING
        weeklyApr ==
            IF lastRatio # Null /\ weeklyRatio # Null
            THEN toFixed(Mul(Mul(Sub(Div(lastRatio, weeklyRatio), One),
                                 JsDiv(365, AVG_DAYS)), hundred), FIXED_DP)
            ELSE CALCULATING
        earnMultiplier ==
            IF lastRatio # Null /\ yesterdayRatio # Null
            THEN toString(Sub(lastRatio, yesterdayRatio))
            ELSE STR_ZERO
    IN  [address |-> address,
         baseApy |-> baseApy,
         avgApy |-> avgApy,
         dailyBasedApr |-> dailyApr,
         weeklyBasedApr |-> weeklyApr,
         earnMultiplier |-> earnMultiplier]

-----------------------------------------------------------------------------
(* The per-address computation of the stats handler (no helper functions) *)

\* new Decimal(entry?.currentUsdBalance ?? "0").div(USD_SCALE)
\*     .div(new Decimal(entry?.totalShares ?? "0").div(SHARES_SCALE))
ratioOrZero(poolEntry) ==
    LET usd == IF poolEntry = Null THEN <<0>> ELSE poolEntry.currentUsdBalance
        shares == IF poolEntry = Null THEN <<0>> ELSE poolEntry.totalShares
    IN  Div(Div(NewDecimal(usd), Fin(USD_SCALE, 1)),
            Div(NewDecimal(shares), Fin(SHARES_SCALE, 1)))

\* the days between the first and the last entry, a missing entry standing
\* for the clock reading
statsDaysElapsed(poolsEntries, clock) ==
    LET firstBlockTime ==
            IF poolsEntries.firstEntry = Null THEN clock
            ELSE poolsEntries.firstEntry.blockTime
        lastBlockTime ==
            IF poolsEntries.lastEntry = Null THEN clock
            ELSE poolsEntries.lastEntry.blockTime
    IN  Ceil(lastBlockTime - firstBlockTime, DAY)

statsRow(address, poolsEntries, clock) ==
    LET lastRatio == ratioOrZero(poolsEntries.lastEntry)
        avgRatio == ratioOrZero(poolsEntries.weeklyEntry)
        yesterdayRatio == ratioOrZero(poolsEntries.yesterdayEntry)
        elapsed == statsDaysElapsed(poolsEntries, clock)
        hundred == Fin(100, 1)
        baseApy ==
            Mul(Sub(Pow(lastRatio, JsDiv(DAYS_IN_YEAR, elapsed)), One), hundred)
    IN  [address |-> address,
         baseApy |-> toFixed(baseApy, FIXED_DP),
         avgApy |->
            IF avgRatio.k = "nan" THEN CALCULATING
            ELSE toFixed(Mul(Sub(Pow(Div(lastRatio, avgRatio),
                                     JsDiv(DAYS_IN_YEAR, AVG_DAYS)), One),
                             hundred), FIXED_DP),
         dailyBasedApr |->
            IF yesterdayRatio.k = "nan" THEN CALCULATING
            ELSE toFixed(Mul(Mul(Sub(Div(lastRatio, yesterdayRatio), One),
                                 Fin(365, 1)), hundred), FIXED_DP),
         weeklyBasedApr |->
            IF avgRatio.k = "nan" THEN CALCULATING
            ELSE toFixed(Mul(Mul(Sub(Div(lastRatio, avgRatio), One),
                                 JsDiv(365, AVG_DAYS)), hundred), FIXED_DP),
         earnMultiplier |->
            IF yesterdayRatio.k = "nan" THEN STR_ZERO
            ELSE toString(Sub(lastRatio, yesterdayRatio))]

-----------------------------------------------------------------------------
(* Dates: hours since 2023-01-01T00:00Z, January to April 2023 *)

MonthLengths == <<31, 28, 31, 30>>

RECURSIVE MonthStart(_)
\* the day number (from 0) of the first day of month m
MonthStart(m) == IF m = 1 THEN 0 ELSE MonthStart(m - 1) + MonthLengths[m - 1]

\* the month holding instant t
MonthOf(t) ==
    CHOOSE m \in 1..Len(MonthLengths) :
        /\ MonthStart(m) * DAY <= t
        /\ t < (MonthStart(m) + MonthLengths[m]) * DAY

\* d.getUTCDate(): the day of the month, in UTC
getUTCDate(t) == (t \div DAY) - MonthStart(MonthOf(t)) + 1

\* d.getDate(): the day of the month in the server's local time
getDate(t, offset) == getUTCDate(t + offset)

\* d.setUTCHours(0, 0, 0, 0)
setUTCHours0(t) == (t \div DAY) * DAY

\* d.setUTCDate(n): day n of d's UTC month, n <= 0 and n beyond the month's
\* end running into the neighbouring months; the time of day is kept
setUTCDate(t, n) == (MonthStart(MonthOf(t)) + n - 1) * DAY + (t % DAY)

\* the window bounds getPoolsEntries computes from the clock
Windows(clock, offset) ==
    LET nowDate == setUTCHours0(clock)
    IN  [nowDate |-> nowDate,
         weeklyDateMin |->
             setUTCDate(nowDate, getDate(nowDate, offset) - AVG_DAYS),
         weeklyDateMax |->
             setUTCDate(nowDate, getDate(nowDate, offset) - AVG_DAYS + 1),
         yesterdayDateMin |->
             setUTCDate(nowDate, getDate(nowDate, offset) - 1)]

\* d.setDate(n): day n of d's month in the server's local time
setDate(t, n, offset) ==
    LET l == t + offset
    IN  (MonthStart(MonthOf(l)) + n - 1) * DAY + (l % DAY) - offset

\* the window bounds the stats handler computes from the clock
StatsWindows(clock, offset) ==
    LET minAvgDate ==
            setDate(clock, getDate(clock, offset) - (AVG_DAYS + 1), offset)
    IN  [minAvgDate |-> minAvgDate,
         maxAvgDate |-> setDate(clock, getDate(minAvgDate, offset) + 2, offset),
         minYesterdayDate |-> setDate(clock, getDate(clock, offset) - 1, offset),
         maxYesterdayDate |-> clock]

-----------------------------------------------------------------------------
(* The snapshot store: what each query may answer *)

\* variant: the lookup without its address condition
WhereAnyAddress(table, address) == store[table]

\* where: { address: { equals: address } }
WhereAddress(table, address) == {s \in store[table] : s.address = address}

\* where: { blockTime: { gte, lt } }
WhereBlockTime(rows, gte, lt) ==
    {s \in rows : s.blockTime >= gte /\ s.blockTime < lt}

\* findFirst with orderBy blockTime asc: a row of least block time
findFirstAsc(rows) ==
    IF rows = {} THEN {Null}
    ELSE {s \in rows : \A r \in rows : s.blockTime <= r.blockTime}

\* findFirst with orderBy blockTime desc: a row of greatest block time
findFirstDesc(rows) ==
    IF rows = {} THEN {Null}
    ELSE {s \in rows : \A r \in rows : s.blockTime >= r.blockTime}

\* findFirst without orderBy: whichever matching row the store returns
findFirstAny(rows) == IF rows = {} THEN {Null} ELSE rows

\* the answers the four lookups of getPoolsEntries may get
FirstEntries(table, address) == findFirstAsc(WhereAddress(table, address))
LastEntries(table, address) == findFirstDesc(WhereAddress(table, address))
WeeklyEntries(table, address) ==
    LET w == Windows(now, tz)
    IN  findFirstAny(WhereBlockTime(WhereAddress(table, address),
                                    w.weeklyDateMin, w.weeklyDateMax))
YesterdayEntries(table, address) ==
    LET w == Windows(now, tz)
    IN  findFirstAny(WhereBlockTime(WhereAddress(table, address),
                                    w.yesterdayDateMin, w.nowDate))

\* the answers the two window lookups of the stats handler may get
AvgPoolEntries(table, address) ==
    LET w == StatsWindows(now, tz)
    IN  findFirstAny(WhereBlockTime(WhereAddress(table, address),
                                    w.minAvgDate, w.maxAvgDate))
YesterdayPoolEntries(table, address) ==
    LET w == StatsWindows(now, tz)
    IN  findFirstAny(WhereBlockTime(WhereAddress(table, address),
                                    w.minYesterdayDate, w.maxYesterdayDate))

RECURSIVE Orderings(_)
\* the sequences holding each element of S once
Orderings(S) ==
    IF S = {} THEN {<<>>}
    ELSE UNION {{<<a>> \o q : q \in Orderings(S \ {a})} : a \in S}

Range(q) == {q[i] : i \in 1..Len(q)}

\* findMany with distinct: ["address"], mapped to the addresses: each address
\* of the table once, in the order the store returns them
Listings(table) == Orderings({s.address : s \in store[table]})

RECURSIVE SeqsUpTo(_, _)
\* the sequences over S of at most n elements
SeqsUpTo(S, n) ==
    IF n = 0 THEN {<<>>}
    ELSE LET shorter == SeqsUpTo(S, n - 1)
         IN  shorter \cup {Append(q, a) : q \in shorter, a \in S}

\* the listings of a store that does not honour distinct: every address of
\* the table, at most `extra` entries more than one each
ListingsRepeating(table, extra) ==
    LET A == {s.address : s \in store[table]}
    IN  {q \in SeqsUpTo(A, Cardinality(A) + extra) : Range(q) = A}

RepeatingListings(table) == ListingsRepeating(table, MaxRepeats)

-----------------------------------------------------------------------------
(* The request handler *)

NoEntries ==
    [firstEntry |-> Null, lastEntry |-> Null, weeklyEntry |-> Null,
     yesterdayEntry |-> Null]

\* the key of a table's list in the response ("" for the bare list of the
\* single-table handler)
Key(table) ==
    CASE table = "polygonPool" -> "polygon"
      [] table = "optimismPool" -> "optimism"
      [] table = "pools" -> ""

\* resp.status(200).json(...)
Ok(results) ==
    [status |-> 200,
     stats |-> [i \in 1..Len(results) |->
                   [key |-> Key(results[i].table), rows |-> results[i].rows]],
     error |-> ""]

\* resp.status(500).json({ error: error.toString() })
Failure(error) == [status |-> 500, stats |-> <<>>, error |-> error]

\* a request arrives while the handler is at one of `positions`: it starts
\* with a fresh client
RequestAt(positions) ==
    /\ pc \in positions
    /\ pc' = "list"
    /\ net' = 1
    /\ addresses' = <<>>
    /\ idx' = 0
    /\ entries' = NoEntries
    /\ stats' = <<>>
    /\ done' = <<>>
    /\ prev' = responses
    /\ responses' = <<>>
    /\ err' = ""
    /\ days' = 0
    /\ row' = Null
    /\ UNCHANGED <<now, tz, store, endpoint, networks>>

\* a request, the first or one after an earlier response
Request == RequestAt({"idle", "done"})

\* the first request
FirstRequest == RequestAt({"idle"})

\* getStats (or the loop) of the current table has returned `rows` for
\* `listing`: go on with the next table, or send the success response
FinishTable(listing, rows) ==
    LET results == Append(done, [table |-> networks[net],
                                 addresses |-> listing, rows |-> rows])
    IN  /\ done' = results
        /\ IF net < Len(networks)
           THEN /\ net' = net + 1
                /\ pc' = "list"
                /\ responses' = responses
           ELSE /\ net' = net
                /\ pc' = "done"
                /\ responses' = Append(responses, Ok(results))

\* await findMany({ distinct: ["address"] }) answers with one of `listings`
ListFrom(listings) ==
    /\ pc = "list"
    /\ \E listing \in listings :
          /\ addresses' = listing
          /\ stats' = <<>>
          /\ entries' = NoEntries
          /\ IF listing = <<>>
             THEN /\ idx' = 0
                  /\ FinishTable(listing, <<>>)
             ELSE /\ idx' = 1
                  /\ pc' = "first"
                  /\ UNCHANGED <<net, done, responses>>
    /\ days' = 0
    /\ row' = Null
    /\ UNCHANGED <<now, tz, store, endpoint, networks, err, prev>>

\* the store honours distinct
ListAddresses == ListFrom(Listings(networks[net]))

\* the store breaks distinct and lists some address again
ListRepeatedAddresses == ListFrom(RepeatingListings(networks[net]))

\* await findFirst({ orderBy: { blockTime: "asc" } }) answers
FindFirstEntry ==
    /\ pc = "first"
    /\ \E e \in FirstEntries(networks[net], addresses[idx]) :
          entries' = [NoEntries EXCEPT !.firstEntry = e]
    /\ pc' = "last"
    /\ days' = 0
    /\ row' = Null
    /\ UNCHANGED <<now, tz, store, endpoint, networks, net, addresses, idx,
                   stats, done, responses, err, prev>>

\* await findFirst({ orderBy: { blockTime: "desc" } }) answers
FindLastEntry ==
    /\ pc = "last"
    /\ \E e \in LastEntries(networks[net], addresses[idx]) :
          entries' = [entries EXCEPT !.lastEntry = e]
    /\ pc' = "weekly"
    /\ UNCHANGED <<now, tz, store, endpoint, networks, net, addresses, idx, stats, done,
                   responses, err, prev, days, row>>

\* await findFirst in the weekly window answers
FindWeeklyEntry ==
    /\ pc = "weekly"
    /\ endpoint # "stats"
    /\ \E e \in WeeklyEntries(networks[net], addresses[idx]) :
          entries' = [entries EXCEPT !.weeklyEntry = e]
    /\ pc' = "yesterday"
    /\ UNCHANGED <<now, tz, store, endpoint, networks, net, addresses, idx,
                   stats, done, responses, err, prev, days, row>>

\* variant: a row is pushed only when no row has its address yet
PushDistinct(poolsEntries, newRow, elapsed) ==
    LET pushed == IF \E j \in 1..Len(stats) : stats[j].address = newRow.address
                  THEN stats ELSE Append(stats, newRow)
    IN  /\ entries' = poolsEntries
        /\ row' = newRow
        /\ days' = elapsed
        /\ stats' = pushed
        /\ IF idx < Len(addresses)
           THEN /\ idx' = idx + 1
                /\ pc' = "first"
                /\ UNCHANGED <<net, done, responses>>
           ELSE /\ idx' = idx
                /\ FinishTable(addresses, pushed)

\* stats.push(newRow) and the loop goes on to the next address, or ends
Push(poolsEntries, newRow, elapsed) ==
    LET pushed == Append(stats, newRow)
    IN  /\ entries' = poolsEntries
        /\ row' = newRow
        /\ days' = elapsed
        /\ stats' = pushed
        /\ IF idx < Len(addresses)
           THEN /\ idx' = idx + 1
                /\ pc' = "first"
                /\ UNCHANGED <<net, done, responses>>
           ELSE /\ idx' = idx
                /\ FinishTable(addresses, pushed)

\* await findFirst in the yesterday window answers; getPoolsEntries returns
\* and the row of getPoolsStats is pushed
FindYesterdayEntry ==
    /\ pc = "yesterday"
    /\ endpoint # "stats"
    /\ \E e \in YesterdayEntries(networks[net], addresses[idx]) :
          LET poolsEntries == [entries EXCEPT !.yesterdayEntry = e]
          IN  Push(poolsEntries, getPoolsStats(addresses[idx], poolsEntries),
                   daysElapsedSinceIndexed(poolsEntries))
    /\ UNCHANGED <<now, tz, store, endpoint, networks, addresses, err, prev>>

\* stats handler: await findFirst in [minAvgDate, maxAvgDate) answers
FindAvgPoolEntry ==
    /\ pc = "weekly"
    /\ endpoint = "stats"
    /\ \E e \in AvgPoolEntries(networks[net], addresses[idx]) :
          entries' = [entries EXCEPT !.weeklyEntry = e]
    /\ pc' = "yesterday"
    /\ UNCHANGED <<now, tz, store, endpoint, networks, net, addresses, idx,
                   stats, done, responses, err, prev, days, row>>

\* stats handler: await findFirst in [minYesterdayDate, maxYesterdayDate)
\* answers; the row is computed and pushed
FindYesterdayPoolEntry ==
    /\ pc = "yesterday"
    /\ endpoint = "stats"
    /\ \E e \in YesterdayPoolEntries(networks[net], addresses[idx]) :
          LET poolsEntries == [entries EXCEPT !.yesterdayEntry = e]
          IN  Push(poolsEntries, statsRow(addresses[idx], poolsEntries, now),
                   statsDaysElapsed(poolsEntries, now))
    /\ UNCHANGED <<now, tz, store, endpoint, networks, addresses, err, prev>>

\* variant: the catch block answers with the tables finished so far
CatchSendingPartial(error) ==
    /\ err' = error
    /\ responses' = Append(responses, Ok(done))
    /\ pc' = "done"

\* catch (error): the failure response
Catch(error) ==
    /\ err' = error
    /\ responses' = Append(responses, Failure(error))
    /\ pc' = "done"

\* the awaited store query rejects
StoreFailure ==
    /\ pc \in {"list", "first", "last", "weekly", "yesterday"}
    /\ Catch("Error: store")
    /\ UNCHANGED <<now, tz, store, endpoint, networks, net, addresses, idx, entries,
                   stats, done, prev, days, row>>

-----------------------------------------------------------------------------
(* The invocations of the handler over a bounded family of stores *)

\* a snapshot row (id and block play no part in the statistics)
Snap(a, t, s, u) ==
    [address |-> a, blockTime |-> t, totalShares |-> s, currentUsdBalance |-> u]

Clock(month, day, hour) == (MonthStart(month) + day - 1) * DAY + hour

\* 2023-03-01T05:00Z (the windows reach into February) and 2023-03-10T05:00Z
NowSet == {Clock(3, 1, 5), Clock(3, 10, 5)}
\* server local time behind UTC, UTC, ahead of UTC
TzSet == {-5, 0, 5}
\* the three handlers and the tables each walks
Endpoints == {"multi", "single", "stats"}
Tables(e) == IF e = "multi" THEN <<"polygonPool", "optimismPool">> ELSE <<"pools">>

\* block times relative to the UTC midnight before the clock reading: seven
\* days before, one day before, one hour before
RelTimes == {-7 * DAY, -DAY, -1}
\* (totalShares, currentUsdBalance): ratio 1 and ratio 1.1
StoreValues ==
    {<<(<<1, 0, 0, 0, 0, 0, 0>>), (<<1, 0, 0, 0, 0, 0, 0>>)>>,
     <<(<<1, 0, 0, 0, 0, 0, 0>>), (<<1, 1, 0, 0, 0, 0, 0>>)>>}

\* the rows a table may hold: address a1 at every time with every value, a2
\* one day before with ratio 1.1
Rows(clock) ==
    LET nowDate == setUTCHours0(clock)
    IN  {Snap("a1", nowDate + t, v[1], v[2]) : t \in RelTimes, v \in StoreValues}
        \cup {Snap("a2", nowDate - DAY, <<1, 0, 0, 0, 0, 0, 0>>,
                    <<1, 1, 0, 0, 0, 0, 0>>)}

RECURSIVE SubsetsUpTo(_, _)
\* the subsets of U of at most k elements
SubsetsUpTo(U, k) ==
    IF k = 0 THEN {{}}
    ELSE LET smaller == SubsetsUpTo(U, k - 1)
         IN  smaller \cup {S \cup {x} : S \in smaller, x \in U}

Stores(tables, clock) ==
    LET U == Range(tables) \X Rows(clock)
    IN  {[t \in Range(tables) |-> {p[2] : p \in {q \in S : q[1] = t}}] :
            S \in SubsetsUpTo(U, MaxSnapshots)}

\* the state before the first request, for the given clock readings, server
\* time zones and handlers
InitOver(clocks, offsets, handlers) ==
    /\ now \in clocks
    /\ tz \in offsets
    /\ endpoint \in handlers
    /\ networks = Tables(endpoint)
    /\ store \in Stores(networks, now)
    /\ pc = "idle"
    /\ net = 1
    /\ addresses = <<>>
    /\ idx = 0
    /\ entries = NoEntries
    /\ stats = <<>>
    /\ done = <<>>
    /\ responses = <<>>
    /\ err = ""
    /\ prev = <<>>
    /\ days = 0
    /\ row = Null

Init == InitOver(NowSet, TzSet, Endpoints)

Next ==
    \/ Request
    \/ ListAddresses
    \/ FindFirstEntry
    \/ FindLastEntry
    \/ FindWeeklyEntry
    \/ FindYesterdayEntry
    \/ FindAvgPoolEntry
    \/ FindYesterdayPoolEntry
    \/ StoreFailure

Spec == Init /\ [][Next]_vars

\* one invocation over a store whose listing may repeat addresses
NextRepeating ==
    \/ FirstRequest
    \/ ListRepeatedAddresses
    \/ FindFirstEntry
    \/ FindLastEntry
    \/ FindWeeklyEntry
    \/ FindYesterdayEntry
    \/ FindAvgPoolEntry
    \/ FindYesterdayPoolEntry
    \/ StoreFailure

\* the three handlers on a server in UTC
InitRepeating == InitOver({Clock(3, 10, 5)}, {0}, Endpoints)

SpecRepeating == InitRepeating /\ [][NextRepeating]_vars

-----------------------------------------------------------------------------
(* getPoolsStats on its own, on every PoolsEntries value the type admits, and
   the legacy handler's inline computation on the entries it can read: its
   addresses come from the table itself, so a first and a last entry exist *)

\* "0", "1000000", "2000000"
ShareStrs == {<<0>>, <<1, 0, 0, 0, 0, 0, 0>>, <<2, 0, 0, 0, 0, 0, 0>>}
\* "0", "1000000", "1100000"
UsdStrs == {<<0>>, <<1, 0, 0, 0, 0, 0, 0>>, <<1, 1, 0, 0, 0, 0, 0>>}
\* block times: equal, one hour apart, one day, a day and an hour, 365 days
StatsTimes == {0, 1, 24, 25, 8760}

OrNull(S) == {Null} \cup S

\* first and last come from the ascending and the descending lookup, so the
\* first block time is never after the last
StatsInputs ==
    {e \in [firstEntry : OrNull({Snap("a1", t, <<1, 0, 0, 0, 0, 0, 0>>,
                                      <<1, 0, 0, 0, 0, 0, 0>>) : t \in StatsTimes}),
            lastEntry : OrNull({Snap("a1", t, s, u) :
                                  t \in StatsTimes, s \in ShareStrs, u \in UsdStrs}),
            weeklyEntry : OrNull({Snap("a1", 0, s, u) :
                                    s \in ShareStrs, u \in UsdStrs}),
            yesterdayEntry : OrNull({Snap("a1", 0, s, u) :
                                       s \in ShareStrs, u \in UsdStrs})] :
        (e.firstEntry # Null /\ e.lastEntry # Null)
            => e.firstEntry.blockTime <= e.lastEntry.blockTime}

InitStats ==
    /\ now = 0
    /\ tz = 0
    /\ store = [t \in {"pools"} |-> {}]
    /\ endpoint \in {"single", "stats"}
    /\ networks = <<"pools">>
    /\ pc = "call"
    /\ net = 1
    /\ addresses = <<"a1">>
    /\ idx = 1
    /\ entries \in StatsInputs
    /\ endpoint = "stats" => entries.firstEntry # Null /\ entries.lastEntry # Null
    /\ stats = <<>>
    /\ done = <<>>
    /\ responses = <<>>
    /\ err = ""
    /\ prev = <<>>
    /\ days = 0
    /\ row = Null

CallGetPoolsStats ==
    /\ pc = "call"
    /\ row' = IF endpoint = "stats" THEN statsRow(addresses[idx], entries, now)
               ELSE getPoolsStats(addresses[idx], entries)
    /\ days' = IF endpoint = "stats" THEN statsDaysElapsed(entries, now)
                ELSE daysElapsedSinceIndexed(entries)
    /\ pc' = "return"
    /\ UNCHANGED <<now, tz, store, endpoint, networks, net, addresses, idx, entries,
                   stats, done, responses, err, prev>>

NextStats == CallGetPoolsStats

SpecStats == InitStats /\ [][NextStats]_vars

-----------------------------------------------------------------------------
(* Properties *)

EntryFields == {"firstEntry", "lastEntry", "weeklyEntry", "yesterdayEntry"}

\* the table the entries of the row just pushed were read from: the table
\* finished last when the row was the last of its listing
EntriesTable ==
    IF Len(stats) = Len(addresses) THEN done[Len(done)].table ELSE networks[net]

AllPlaceholders(r) ==
    /\ r.baseApy = CALCULATING
    /\ r.avgApy = CALCULATING
    /\ r.dailyBasedApr = CALCULATING
    /\ r.weeklyBasedApr = CALCULATING
    /\ r.earnMultiplier = STR_ZERO

NotANumber(f) == f.text \in {"NaN", "Infinity", "-Infinity"}

Repeats(q) == \E j, k \in 1..Len(q) : j # k /\ q[j] = q[k]

AddressesOf(rows) == [j \in 1..Len(rows) |-> rows[j].address]

Count(q, a) == Cardinality({j \in 1..Len(q) : q[j] = a})

\* C1: every row of getPoolsStats for an address with fewer than 2 snapshots
\* in its table has "calculating.." in the four percentage fields and "0" as
\* earnMultiplier, whatever window the snapshot falls in.
C1_FewSnapshotsGivePlaceholders ==
    endpoint # "stats" =>
        \A i \in 1..Len(done) : \A j \in 1..Len(done[i].rows) :
            LET r == done[i].rows[j]
                own == {s \in store[done[i].table] : s.address = r.address}
            IN  Cardinality(own) < 2 => AllPlaceholders(r)

\* C2: when getPoolsStats has run with daysElapsedSinceIndexed = 0 and a
\* last entry present, baseApy is "calculating..".
C2_ZeroDaysGivePlaceholder ==
    (pc = "return" /\ days = 0 /\ entries.lastEntry # Null)
        => row.baseApy = CALCULATING

ZeroShares(e) == e # Null /\ e.totalShares = <<0>>

\* C3: a snapshot with totalShares "0" used as the last, weekly or yesterday
\* reference makes every metric depending on it the placeholder, and no
\* field of the row is "NaN" or "Infinity".
C3_ZeroSharesGivePlaceholders ==
    pc = "return" =>
        /\ ZeroShares(entries.lastEntry) => AllPlaceholders(row)
        /\ ZeroShares(entries.weeklyEntry) =>
              row.avgApy = CALCULATING /\ row.weeklyBasedApr = CALCULATING
        /\ ZeroShares(entries.yesterdayEntry) =>
              row.dailyBasedApr = CALCULATING /\ row.earnMultiplier = STR_ZERO
        /\ \A f \in {row.baseApy, row.avgApy, row.dailyBasedApr,
                     row.weeklyBasedApr, row.earnMultiplier} : ~NotANumber(f)

\* C4: for every presence/absence combination of the four entries
\* getPoolsStats returns a row for the address; baseApy is "calculating.."
\* when lastEntry is absent, avgApy and weeklyBasedApr are "calculating.."
\* when lastEntry or weeklyEntry is absent, dailyBasedApr is "calculating.."
\* and earnMultiplier "0" when lastEntry or yesterdayEntry is absent.
C4_AbsentEntriesGivePlaceholders ==
    (pc = "return" /\ endpoint # "stats") =>
        /\ row # Null
        /\ row.address = addresses[idx]
        /\ entries.lastEntry = Null => row.baseApy = CALCULATING
        /\ (entries.lastEntry = Null \/ entries.weeklyEntry = Null) =>
              row.avgApy = CALCULATING /\ row.weeklyBasedApr = CALCULATING
        /\ (entries.lastEntry = Null \/ entries.yesterdayEntry = Null) =>
              row.dailyBasedApr = CALCULATING /\ row.earnMultiplier = STR_ZERO

\* C4 happens: a row returned for a first, a weekly and a yesterday entry
\* without a last entry
C4_Witness ==
    /\ pc = "return"
    /\ endpoint # "stats"
    /\ entries.firstEntry # Null
    /\ entries.lastEntry = Null
    /\ entries.weeklyEntry # Null
    /\ entries.yesterdayEntry # Null
    /\ AllPlaceholders(row)

\* C5: an invocation sends at most one response, and exactly one once it has
\* ended; after a failed store query that response is the failure response
\* with the error message and no rows; the success response is sent only
\* with no failure, after every address of every table was processed.
C5_OneResponse ==
    /\ Len(responses) <= 1
    /\ (pc = "done") <=> (Len(responses) = 1)
    /\ err # "" =>
          /\ Len(responses) = 1
          /\ responses[1].status = 500
          /\ responses[1].error = err
          /\ responses[1].stats = <<>>
    /\ \A k \in 1..Len(responses) : responses[k].status = 200 =>
          /\ err = ""
          /\ Len(done) = Len(networks)
          /\ Len(responses[k].stats) = Len(networks)
          /\ \A i \in 1..Len(networks) :
                /\ done[i].table = networks[i]
                /\ Range(done[i].addresses) =
                       {s.address : s \in store[networks[i]]}
                /\ Len(done[i].rows) = Len(done[i].addresses)
                /\ responses[k].stats[i].rows = done[i].rows

\* C5 happens: a store query failed after rows had been computed
C5_Witness ==
    /\ pc = "done"
    /\ err # ""
    /\ Len(done) > 0
    /\ done[1].rows # <<>>
    /\ responses = <<Failure(err)>>

\* C6: each finished table has one row per listed address, the i-th row
\* carrying the i-th listed address; the rows pushed so far follow the
\* listing; and the row just pushed was computed from entries that are
\* snapshots of its own address in the table being processed.
C6_OneRowPerAddressInOrder ==
    /\ \A i \in 1..Len(done) :
          /\ Len(done[i].rows) = Len(done[i].addresses)
          /\ AddressesOf(done[i].rows) = done[i].addresses
    /\ Len(stats) <= Len(addresses)
    /\ AddressesOf(stats) = SubSeq(addresses, 1, Len(stats))
    /\ (row # Null /\ pc # "return") =>
          LET a == row.address
              own == {s \in store[EntriesTable] : s.address = a}
          IN  /\ stats # <<>>
              /\ stats[Len(stats)] = row
              /\ \A f \in EntryFields : entries[f] \in own \cup {Null}
              /\ row = IF endpoint = "stats" THEN statsRow(a, entries, now)
                       ELSE getPoolsStats(a, entries)

\* C6 happens: a finished table whose listing named a2 before a1
C6_Witness ==
    \E i \in 1..Len(done) :
        /\ done[i].addresses = <<"a2", "a1">>
        /\ AddressesOf(done[i].rows) = <<"a2", "a1">>

\* C7 as stated: when the listing names an address more than once, no two
\* rows of the output have the same address.
C7_NoDuplicateRows ==
    \A i \in 1..Len(done) :
        Repeats(done[i].addresses) => ~Repeats(AddressesOf(done[i].rows))

\* C7 amended: the output holds one row for each entry of the listing, so an
\* address has as many rows as the listing names it, and no two rows have
\* the same address exactly when the listing names no address twice.
C7_OneRowPerListedEntry ==
    \A i \in 1..Len(done) :
        /\ \A a \in Range(done[i].addresses) \cup Range(AddressesOf(done[i].rows)) :
              Count(AddressesOf(done[i].rows), a) = Count(done[i].addresses, a)
        /\ Repeats(AddressesOf(done[i].rows)) <=> Repeats(done[i].addresses)

\* C7 happens: a listing that named an address twice, and the two rows for it
C7_Witness ==
    \E i \in 1..Len(done) :
        /\ Repeats(done[i].addresses)
        /\ Repeats(AddressesOf(done[i].rows))

\* C8: two invocations that both succeed against the same store with the
\* same clock reading send identical responses.
C8_Idempotent ==
    (/\ pc = "done"
     /\ prev # <<>>
     /\ prev[1].status = 200
     /\ responses[1].status = 200) => responses = prev

\* C9: with nowDate the clock reading truncated to UTC midnight,
\* getPoolsEntries returns as weeklyEntry only a snapshot with blockTime in
\* [nowDate - 7 days, nowDate - 6 days) and as yesterdayEntry only one with
\* blockTime in [nowDate - 1 day, nowDate), and returns absent for a window
\* only when the address has no snapshot in it.
C9_WindowsAreTheStatedOnes ==
    LET nowDate == setUTCHours0(now)
        InWindow(e, a, t, lo, hi) ==
            IF e = Null
            THEN ~\E s \in store[t] :
                     s.address = a /\ s.blockTime >= lo /\ s.blockTime < hi
            ELSE e.blockTime >= lo /\ e.blockTime < hi
    IN  /\ (endpoint # "stats" /\ pc = "yesterday") =>
              InWindow(entries.weeklyEntry, addresses[idx], networks[net],
                       nowDate - AVG_DAYS * DAY, nowDate - (AVG_DAYS - 1) * DAY)
        /\ (endpoint # "stats" /\ row # Null /\ pc # "return") =>
              /\ InWindow(entries.weeklyEntry, row.address, EntriesTable,
                          nowDate - AVG_DAYS * DAY,
                          nowDate - (AVG_DAYS - 1) * DAY)
              /\ InWindow(entries.yesterdayEntry, row.address, EntriesTable,
                          nowDate - DAY, nowDate)

\* C10: daysElapsedSinceIndexed is the least number of days covering the gap
\* from the first to the last block time when both entries are present and
\* 0 otherwise; it is never negative, it is 0 exactly when the block times
\* are equal or an entry is absent, and a positive gap under a day gives 1.
C10_DaysElapsed ==
    pc = "return" =>
        LET both == entries.firstEntry # Null /\ entries.lastEntry # Null
            gap == entries.lastEntry.blockTime - entries.firstEntry.blockTime
        IN  /\ both => days * DAY >= gap /\ (days - 1) * DAY < gap
            /\ ~both => days = 0
            /\ days >= 0
            /\ (days = 0) <=> (~both \/ gap = 0)
            /\ (both /\ 0 < gap /\ gap < DAY) => days = 1

\* C10 happens: a first and a last entry one hour apart
C10_Witness ==
    /\ pc = "return"
    /\ entries.firstEntry # Null
    /\ entries.lastEntry # Null
    /\ entries.lastEntry.blockTime - entries.firstEntry.blockTime = 1
    /\ days = 1

====
